---- MODULE Spec2Model ----
(***************************************************************************)
(* plots/sample.py: plot_flight_data(csv_path) reads a CSV of flight       *)
(* telemetry and draws three 3D line plots (position, velocity,            *)
(* acceleration) in one figure, then shows it.  Each statement of the      *)
(* function is one action; pc is the source line of the next statement.    *)
(***************************************************************************)
EXTENDS Integers, Sequences, FiniteSets, TLC

(* ---------- bounds of the model ---------- *)
MaxRows == 2
MaxVal == 1
MaxMissing == 2
MaxRuns == 2

(* ---------- the program's literals ---------- *)
\* the position and velocity panels exchange their columns
TripleSwapped == << <<"Vx", "Vy", "Vz">>, <<"Sx", "Sy", "Sz">>, <<"Ax", "Ay", "Az">> >>

\* the nine column labels looked up, grouped by panel (lines 17, 25, 33)
Triple == << <<"Sx", "Sy", "Sz">>, <<"Vx", "Vy", "Vz">>, <<"Ax", "Ay", "Az">> >>
\* an additional column a file may carry; the program never looks it up
ExtraCol == "t"
\* subplot position codes 131, 132, 133: slot k of a 1-row, 3-column grid
SubplotRows == 1
SubplotCols == 3
Slot == <<1, 2, 3>>
Title == <<"Position", "Velocity", "Acceleration">>
XLabel == <<"X (m)", "X (m/s)", "X (m/s²)">>
YLabel == <<"Y (m)", "Y (m/s)", "Y (m/s²)">>
ZLabel == <<"Z (m)", "Z (m/s)", "Z (m/s²)">>
FigSize == <<15, 5>>

\* source lines of the statements of plot_flight_data, in program order
Stmts == <<10, 13, 16, 17, 18, 19, 20, 21, 24, 25, 26, 27, 28, 29,
           32, 33, 34, 35, 36, 37, 39, 40>>
ReadCsvLine == 10
FigureLine == 13
AddSubplotLine == <<16, 24, 32>>
PlotLine == <<17, 25, 33>>
SetTitleLine == <<18, 26, 34>>
SetXLabelLine == <<19, 27, 35>>
SetYLabelLine == <<20, 28, 36>>
SetZLabelLine == <<21, 29, 37>>
TightLayoutLine == 39
ShowLine == 40
\* the line after the function's last statement: the call has returned
ReturnLine == 41

(* ---------- helpers ---------- *)
Range(s) == {s[i] : i \in DOMAIN s}

\* position of e in sequence s (0 if absent)
Pos(e, s) == IF \E i \in DOMAIN s : s[i] = e
             THEN CHOOSE i \in DOMAIN s : s[i] = e /\ \A j \in 1..(i - 1) : s[j] # e
             ELSE 0

\* with the last two statements exchanged (show before tight_layout)
NextLineShowFirst(l) ==
    IF l = 37 THEN 40
    ELSE IF l = 40 THEN 39
    ELSE IF l = 39 THEN ReturnLine
    ELSE Stmts[Pos(l, Stmts) + 1]

\* straight-line control flow: the statement after line l
NextLine(l) ==
    IF Pos(l, Stmts) < Len(Stmts) THEN Stmts[Pos(l, Stmts) + 1] ELSE ReturnLine

(* ---------- input files ---------- *)
Required == Triple[1] \o Triple[2] \o Triple[3]
AllCols == <<ExtraCol>> \o Required

\* the sample value of column c in a row of kind r: (0,0,0 | 0,0,0 | ...) for
\* r = 0 and (1,2,3 | 4,5,6 | 7,8,9) for r = 1
Cell(r, c) == r * Pos(c, Required)

Keep(s, P) == SelectSeq(s, LAMBDA c : c \in P)

\* the text of a CSV file: a header line and the data lines, cell by cell
FileOf(present, kinds) ==
    [header |-> Keep(AllCols, present),
     rows |-> [i \in DOMAIN kinds |->
                 [j \in DOMAIN Keep(AllCols, present) |->
                     Cell(kinds[i], Keep(AllCols, present)[j])]]]

RowKinds == UNION {[1..n -> 0..MaxVal] : n \in 0..MaxRows}
Headers == {P \in SUBSET Range(AllCols) : Cardinality(Range(AllCols) \ P) <= MaxMissing}
Contents == {FileOf(P, ks) : P \in Headers, ks \in RowKinds}
EmptyContent == [header |-> <<>>, rows |-> <<>>]

(* ---------- pandas ---------- *)
NoTable == [loaded |-> FALSE, columns |-> <<>>, data |-> <<>>]

\* pd.read_csv: the first line names the columns, column c of the table is the
\* series of the cells under its label, in file row order
read_csv(content) ==
    [loaded |-> TRUE,
     columns |-> content.header,
     data |-> [c \in Range(content.header) |->
                 [i \in DOMAIN content.rows |->
                     content.rows[i][Pos(c, content.header)]]]]

\* df[a], df[b], df[c] are evaluated left to right: the index of the first
\* label that raises KeyError (0 if every lookup succeeds)
FirstMissing(cols, table) ==
    IF \A i \in DOMAIN cols : cols[i] \in Range(table.columns) THEN 0
    ELSE CHOOSE i \in DOMAIN cols :
            /\ cols[i] \notin Range(table.columns)
            /\ \A j \in 1..(i - 1) : cols[j] \in Range(table.columns)

(* ---------- matplotlib ---------- *)
NewFigure == [figsize |-> FigSize, axes |-> <<>>, tight |-> FALSE]

NewAxes(k) == [rows |-> SubplotRows, cols |-> SubplotCols, slot |-> Slot[k],
               projection |-> "3d", lines |-> <<>>,
               title |-> "", xlabel |-> "", ylabel |-> "", zlabel |-> ""]

\* vertices in descending order of x
Line3DSorted(xs, ys, zs) ==
    LET n == Len(xs)
        rank(i) == Cardinality({j \in 1..n : xs[j] > xs[i] \/ (xs[j] = xs[i] /\ j < i)}) + 1
    IN [p \in 1..n |-> LET i == CHOOSE i \in 1..n : rank(i) = p
                       IN <<xs[i], ys[i], zs[i]>>]

\* Axes3D.plot(xs, ys, zs): one polyline through the points (xs[i], ys[i], zs[i])
Line3D(xs, ys, zs) == [i \in DOMAIN xs |-> <<xs[i], ys[i], zs[i]>>]

NoErr == [kind |-> "none", what |-> ""]

VARIABLES
    access,       \* the file at csv_path: "ok", "missing" or "unreadable"
    content,      \* its text
    interactive,  \* whether the matplotlib backend opens windows
    pc,           \* source line of the next statement of plot_flight_data
    status,       \* "running", "showing" (blocked in plt.show), "done", "failed"
    err,          \* the exception that left plot_flight_data
    df,           \* local df
    fig,          \* local fig: index into figures (0 before line 13)
    ax,           \* locals ax1, ax2, ax3: indices into figures[fig].axes
    figures,      \* the Figure objects created so far
    open,         \* pyplot's registry of open figures; the last is current
    displayed,    \* the figures put on screen by plt.show
    trace,        \* the calls made by the current run, in order
    lookups,      \* the labels looked up in df by the current run, in order
    results,      \* the figure each completed call produced
    run           \* number of the current call

vars == <<access, content, interactive, pc, status, err, df, fig, ax, figures,
          open, displayed, trace, lookups, results, run>>

Init ==
    /\ access \in {"ok", "missing", "unreadable"}
    /\ content \in (IF access = "missing" THEN {EmptyContent} ELSE Contents)
    /\ interactive \in BOOLEAN
    /\ pc = ReadCsvLine
    /\ status = "running"
    /\ err = NoErr
    /\ df = NoTable
    /\ fig = 0
    /\ ax = <<>>
    /\ figures = <<>>
    /\ open = <<>>
    /\ displayed = <<>>
    /\ trace = <<>>
    /\ lookups = <<>>
    /\ results = <<>>
    /\ run = 1

At(l) == status = "running" /\ pc = l

Step(name, k) == trace' = Append(trace, <<name, k>>)

\* the exception is swallowed and execution goes on with the next statement
RaiseAndContinue(e) == status' = status /\ err' = e /\ pc' = NextLine(pc)

\* an exception nobody catches leaves the function at the raising statement
Raise(e) == status' = "failed" /\ err' = e /\ pc' = pc

\* a file that cannot be opened is read as a table without columns
ReadCsvLenient ==
    /\ At(ReadCsvLine)
    /\ Step("read_csv", 0)
    /\ df' = read_csv(IF access = "ok" THEN content ELSE EmptyContent)
    /\ pc' = NextLine(pc)
    /\ UNCHANGED <<access, content, interactive, status, err, fig, ax, figures, open,
                   displayed, lookups, results, run>>

\* line 10: df = pd.read_csv(csv_path)
ReadCsv ==
    /\ At(ReadCsvLine)
    /\ Step("read_csv", 0)
    /\ IF access = "missing"
       THEN Raise([kind |-> "FileNotFoundError", what |-> "csv_path"]) /\ df' = df
       ELSE IF access = "unreadable"
       THEN Raise([kind |-> "PermissionError", what |-> "csv_path"]) /\ df' = df
       ELSE df' = read_csv(content) /\ pc' = NextLine(pc) /\ UNCHANGED <<status, err>>
    /\ UNCHANGED <<access, content, interactive, fig, ax, figures, open,
                   displayed, lookups, results, run>>

\* plt.figure(num=1): the open figure is taken again when there is one
FigureReused ==
    /\ At(FigureLine)
    /\ Step("figure", 0)
    /\ IF open = <<>>
       THEN /\ figures' = Append(figures, NewFigure)
            /\ fig' = Len(figures) + 1
            /\ open' = Append(open, Len(figures) + 1)
       ELSE /\ fig' = open[Len(open)]
            /\ UNCHANGED <<figures, open>>
    /\ pc' = NextLine(pc)
    /\ UNCHANGED <<access, content, interactive, status, err, df, ax,
                   displayed, lookups, results, run>>

\* line 13: fig = plt.figure(figsize=(15, 5)): a new Figure, made current
Figure ==
    /\ At(FigureLine)
    /\ Step("figure", 0)
    /\ figures' = Append(figures, NewFigure)
    /\ fig' = Len(figures) + 1
    /\ open' = Append(open, Len(figures) + 1)
    /\ pc' = NextLine(pc)
    /\ UNCHANGED <<access, content, interactive, status, err, df, ax,
                   displayed, lookups, results, run>>

\* fig.subplots(1, 3): the three axes are all created with the first panel
AddSubplotsAll(k) ==
    /\ At(AddSubplotLine[k])
    /\ Step("add_subplot", k)
    /\ IF k = 1
       THEN /\ figures' = [figures EXCEPT
                   ![fig].axes = @ \o <<NewAxes(1), NewAxes(2), NewAxes(3)>>]
            /\ ax' = [j \in 1..3 |-> Len(figures[fig].axes) + j]
       ELSE UNCHANGED <<figures, ax>>
    /\ pc' = NextLine(pc)
    /\ UNCHANGED <<access, content, interactive, status, err, df, fig, open,
                   displayed, lookups, results, run>>

\* lines 16, 24, 32: axk = fig.add_subplot(13k, projection="3d")
AddSubplot(k) ==
    /\ At(AddSubplotLine[k])
    /\ Step("add_subplot", k)
    /\ figures' = [figures EXCEPT ![fig].axes = Append(@, NewAxes(k))]
    /\ ax' = Append(ax, Len(figures[fig].axes) + 1)
    /\ pc' = NextLine(pc)
    /\ UNCHANGED <<access, content, interactive, status, err, df, fig, open,
                   displayed, lookups, results, run>>

\* df.get(label, 0): a missing column is drawn as zeros and nothing is raised
PlotDefault(k) ==
    /\ At(PlotLine[k])
    /\ Step("plot", k)
    /\ LET cols == Triple[k]
           zeros == [i \in DOMAIN content.rows |-> 0]
           get(c) == IF c \in Range(df.columns) THEN df.data[c] ELSE zeros
       IN /\ lookups' = lookups \o cols
          /\ figures' = [figures EXCEPT ![fig].axes[ax[k]].lines =
                Append(@, Line3D(get(cols[1]), get(cols[2]), get(cols[3])))]
    /\ pc' = NextLine(pc)
    /\ UNCHANGED <<access, content, interactive, status, err, df, fig, ax, open,
                   displayed, results, run>>

\* df.pop(label) in place of df[label]: the plotted columns leave the table
PlotPop(k) ==
    /\ At(PlotLine[k])
    /\ Step("plot", k)
    /\ LET cols == Triple[k]
           miss == FirstMissing(cols, df)
       IN IF miss = 0
          THEN /\ lookups' = lookups \o cols
               /\ figures' = [figures EXCEPT ![fig].axes[ax[k]].lines =
                     Append(@, Line3D(df.data[cols[1]], df.data[cols[2]], df.data[cols[3]]))]
               /\ df' = [df EXCEPT !.columns = Keep(@, Range(@) \ Range(cols)),
                                   !.data = [c \in Range(df.columns) \ Range(cols) |-> @[c]]]
               /\ pc' = NextLine(pc)
               /\ UNCHANGED <<status, err>>
          ELSE /\ lookups' = lookups \o SubSeq(cols, 1, miss)
               /\ Raise([kind |-> "KeyError", what |-> cols[miss]])
               /\ UNCHANGED <<figures, df>>
    /\ UNCHANGED <<access, content, interactive, fig, ax, open,
                   displayed, results, run>>

\* lines 17, 25, 33: axk.plot(df[a], df[b], df[c]); the three lookups come
\* first, left to right, and a missing label raises KeyError before plot runs
Plot(k) ==
    /\ At(PlotLine[k])
    /\ Step("plot", k)
    /\ LET cols == Triple[k]
           miss == FirstMissing(cols, df)
       IN IF miss = 0
          THEN /\ lookups' = lookups \o cols
               /\ figures' = [figures EXCEPT ![fig].axes[ax[k]].lines =
                     Append(@, Line3D(df.data[cols[1]], df.data[cols[2]], df.data[cols[3]]))]
               /\ pc' = NextLine(pc)
               /\ UNCHANGED <<status, err>>
          ELSE /\ lookups' = lookups \o SubSeq(cols, 1, miss)
               /\ Raise([kind |-> "KeyError", what |-> cols[miss]])
               /\ UNCHANGED figures
    /\ UNCHANGED <<access, content, interactive, df, fig, ax, open,
                   displayed, results, run>>

\* lines 18, 26, 34: axk.set_title(...)
SetTitle(k) ==
    /\ At(SetTitleLine[k])
    /\ Step("set_title", k)
    /\ figures' = [figures EXCEPT ![fig].axes[ax[k]].title = Title[k]]
    /\ pc' = NextLine(pc)
    /\ UNCHANGED <<access, content, interactive, status, err, df, fig, ax, open,
                   displayed, lookups, results, run>>

\* lines 19, 27, 35: axk.set_xlabel(...)
SetXLabel(k) ==
    /\ At(SetXLabelLine[k])
    /\ Step("set_xlabel", k)
    /\ figures' = [figures EXCEPT ![fig].axes[ax[k]].xlabel = XLabel[k]]
    /\ pc' = NextLine(pc)
    /\ UNCHANGED <<access, content, interactive, status, err, df, fig, ax, open,
                   displayed, lookups, results, run>>

\* lines 20, 28, 36: axk.set_ylabel(...)
SetYLabel(k) ==
    /\ At(SetYLabelLine[k])
    /\ Step("set_ylabel", k)
    /\ figures' = [figures EXCEPT ![fig].axes[ax[k]].ylabel = YLabel[k]]
    /\ pc' = NextLine(pc)
    /\ UNCHANGED <<access, content, interactive, status, err, df, fig, ax, open,
                   displayed, lookups, results, run>>

\* lines 21, 29, 37: axk.set_zlabel(...)
SetZLabel(k) ==
    /\ At(SetZLabelLine[k])
    /\ Step("set_zlabel", k)
    /\ figures' = [figures EXCEPT ![fig].axes[ax[k]].zlabel = ZLabel[k]]
    /\ pc' = NextLine(pc)
    /\ UNCHANGED <<access, content, interactive, status, err, df, fig, ax, open,
                   displayed, lookups, results, run>>

\* line 39: plt.tight_layout() lays out the current figure
TightLayout ==
    /\ At(TightLayoutLine)
    /\ Step("tight_layout", 0)
    /\ figures' = [figures EXCEPT ![open[Len(open)]].tight = TRUE]
    /\ pc' = NextLine(pc)
    /\ UNCHANGED <<access, content, interactive, status, err, df, fig, ax, open,
                   displayed, lookups, results, run>>

\* line 40: plt.show() puts every open figure on screen and blocks until the
\* windows are closed; with a non-interactive backend it returns at once and
\* the figure stays open
Show ==
    /\ At(ShowLine)
    /\ Step("show", 0)
    /\ IF interactive
       THEN /\ displayed' = displayed \o open
            /\ status' = "showing"
            /\ UNCHANGED <<pc, results>>
       ELSE /\ status' = "done"
            /\ pc' = NextLine(pc)
            /\ results' = Append(results, figures[fig])
            /\ UNCHANGED displayed
    /\ UNCHANGED <<access, content, interactive, err, df, fig, ax, figures, open,
                   lookups, run>>

\* the windows are closed but show keeps waiting
CloseViewerNoReturn ==
    /\ status = "showing"
    /\ open # <<>>
    /\ open' = <<>>
    /\ UNCHANGED <<access, content, interactive, pc, status, err, df, fig, ax,
                   figures, displayed, trace, lookups, results, run>>

\* line 40, second half: the viewer closes the windows, the figures leave the
\* registry, plt.show() and then plot_flight_data return
CloseViewer ==
    /\ status = "showing"
    /\ open' = <<>>
    /\ status' = "done"
    /\ pc' = NextLine(pc)
    /\ results' = Append(results, figures[fig])
    /\ UNCHANGED <<access, content, interactive, err, df, fig, ax, figures,
                   displayed, trace, lookups, run>>

\* plot_flight_data is called again on the same path after it has returned;
\* the locals are fresh, pyplot's registry and the file are what they were
Rerun ==
    /\ status = "done"
    /\ run < MaxRuns
    /\ run' = run + 1
    /\ pc' = ReadCsvLine
    /\ status' = "running"
    /\ df' = NoTable
    /\ fig' = 0
    /\ ax' = <<>>
    /\ trace' = <<>>
    /\ lookups' = <<>>
    /\ UNCHANGED <<access, content, interactive, err, figures, open, displayed,
                   results>>

Next ==
    \/ ReadCsv
    \/ Figure
    \/ \E k \in 1..3 : AddSubplot(k)
    \/ \E k \in 1..3 : Plot(k)
    \/ \E k \in 1..3 : SetTitle(k)
    \/ \E k \in 1..3 : SetXLabel(k)
    \/ \E k \in 1..3 : SetYLabel(k)
    \/ \E k \in 1..3 : SetZLabel(k)
    \/ TightLayout
    \/ Show
    \/ CloseViewer
    \/ Rerun

Spec == Init /\ [][Next]_vars

\* the interpreter always executes the next statement, and the viewer is
\* eventually closed
FairSpec == Init /\ [][Next]_vars /\ WF_vars(Next)


(* ======================= properties ======================= *)

\* what the specification expects of panel k, written out
ExpectedCols == << <<"Sx", "Sy", "Sz">>, <<"Vx", "Vy", "Vz">>, <<"Ax", "Ay", "Az">> >>
ExpectedTitle == <<"Position", "Velocity", "Acceleration">>
ExpectedLabels == << <<"X (m)", "Y (m)", "Z (m)">>,
                     <<"X (m/s)", "Y (m/s)", "Z (m/s)">>,
                     <<"X (m/s²)", "Y (m/s²)", "Z (m/s²)">> >>
NineCols == ExpectedCols[1] \o ExpectedCols[2] \o ExpectedCols[3]

NumRows == Len(content.rows)
HasCol(c) == c \in Range(content.header)
MissingCols == {c \in Range(NineCols) : ~HasCol(c)}
WellFormed == access = "ok" /\ MissingCols = {}
\* the panel of the first missing column in lookup order (NineCols order)
FirstMissingCol == NineCols[CHOOSE i \in 1..9 :
                        ~HasCol(NineCols[i]) /\ \A j \in 1..(i - 1) : HasCol(NineCols[j])]
PanelOf(c) == ((Pos(c, NineCols) - 1) \div 3) + 1

\* the cell of file row i under header label c
FileCell(i, c) == content.rows[i][Pos(c, content.header)]

Axes == IF fig = 0 THEN <<>> ELSE figures[fig].axes
EmptyPanel(a) == a.lines = <<>> /\ a.title = "" /\ a.xlabel = "" /\ a.ylabel = ""
                 /\ a.zlabel = ""
CompletePanel(a, k) ==
    /\ Len(a.lines) = 1
    /\ a.title = ExpectedTitle[k]
    /\ <<a.xlabel, a.ylabel, a.zlabel>> = ExpectedLabels[k]
    /\ a.slot = k /\ a.rows = 1 /\ a.cols = 3 /\ a.projection = "3d"

SchemaFailure == status = "failed" /\ err.kind = "KeyError"
AccessFailure == status = "failed" /\ err.kind \in {"FileNotFoundError", "PermissionError"}

\* C1 as stated: when a required column is missing, the figure holds no panel
\* at the moment of failure (no axes created, no line, no title).
C1_NoPanelAtFailure ==
    (access = "ok" /\ MissingCols # {} /\ status = "failed") => Axes = <<>>

\* C1, amended: a file missing a required column makes the run fail with a
\* KeyError before anything is laid out or displayed; the panel whose lookup
\* failed has no line, title or label and is the last one of the figure, but
\* its axes do exist, so the figure is not empty.
C1_NothingShownAtSchemaFailure ==
    (access = "ok" /\ MissingCols # {}) =>
        /\ status \in {"running", "failed"}
        /\ displayed = <<>>
        /\ \A f \in DOMAIN figures : ~figures[f].tight
        /\ err # NoErr =>
              /\ SchemaFailure
              /\ err.what \in MissingCols
              /\ Axes # <<>>
              /\ EmptyPanel(Axes[Len(Axes)])

C1_Witness ==
    /\ SchemaFailure /\ err.what = "Az" /\ Len(Axes) = 3 /\ EmptyPanel(Axes[3])

\* C2: a well-formed input with N >= 1 rows yields exactly three panels, in
\* slots 1, 2, 3 of a 1x3 grid, panel k with its own title, axis labels and a
\* single line drawn from its own column triple.
C2_ThreePanelsInOrder ==
    (status = "done" /\ NumRows >= 1) =>
        /\ Len(Axes) = 3
        /\ \A k \in 1..3 :
              /\ CompletePanel(Axes[k], k)
              /\ \A i \in 1..NumRows : \A d \in 1..3 :
                    Axes[k].lines[1][i][d] = df.data[ExpectedCols[k][d]][i]
        /\ results[run] = figures[fig]

C2_Witness ==
    /\ status = "done" /\ NumRows >= 1 /\ Len(Axes) = 3
    /\ Axes[2].title = "Velocity" /\ Axes[2].lines[1][1] = <<4, 5, 6>>

\* C3: the vertex sequence of each panel's line is the sequence of the
\* panel's (X, Y, Z) cells of the input file in row order: same length, same
\* order, nothing dropped, duplicated or reordered.
C3_VerticesInRowOrder ==
    status = "done" =>
        \A k \in 1..3 :
            Axes[k].lines[1] =
                [i \in 1..NumRows |-> <<FileCell(i, ExpectedCols[k][1]),
                                        FileCell(i, ExpectedCols[k][2]),
                                        FileCell(i, ExpectedCols[k][3])>>]

C3_Witness ==
    /\ status = "done"
    /\ Axes[1].lines[1] = << <<0, 0, 0>>, <<1, 2, 3>> >>

\* C4: a missing or unreadable path fails in the load step with a data-access
\* error, never a KeyError, before the figure is created and before any
\* column is looked up.
C4_AccessErrorAtLoad ==
    /\ access # "ok" =>
          /\ status \in {"running", "failed"}
          /\ pc = 10 /\ fig = 0 /\ figures = <<>> /\ lookups = <<>> /\ ~df.loaded
          /\ err # NoErr =>
                /\ AccessFailure
                /\ trace = << <<"read_csv", 0>> >>
                /\ (err.kind = "FileNotFoundError") <=> (access = "missing")
    /\ AccessFailure => access # "ok"

C4_Witness ==
    /\ access = "missing" /\ status = "failed" /\ err.kind = "FileNotFoundError"
    /\ figures = <<>>

\* C5: calling plot_flight_data again on the same well-formed file produces the
\* same figure (panels, vertex sequences, titles, labels) as the call before,
\* whatever the earlier call left in pyplot's registry.
C5_RerunSameResult ==
    /\ \A i, j \in DOMAIN results : results[i] = results[j]
    /\ status = "done" => (Len(results) = run /\ results[run].axes = Axes)

C5_Witness ==
    /\ Len(results) = 2 /\ status = "done" /\ NumRows = 2
    /\ ~interactive /\ Len(open) = 2

\* C6: a failure is never recovered: with a missing or unreadable file or a
\* missing required column the display step is never reached and nothing is
\* displayed, no line is drawn for a panel with a missing column, the table
\* gains no column, the failing statement ran once and is the last call made,
\* and no step follows the error.
C6_ErrorsUnrecovered ==
    /\ [](~WellFormed =>
            /\ status \in {"running", "failed"}
            /\ <<"show", 0>> \notin Range(trace)
            /\ displayed = <<>> /\ results = <<>>
            /\ \A k \in 1..3 : (k \in DOMAIN Axes /\ Axes[k].lines # <<>>) =>
                                   Range(ExpectedCols[k]) \cap MissingCols = {}
            /\ df.loaded => df.columns = content.header)
    /\ [](err # NoErr =>
            /\ status = "failed"
            /\ ~WellFormed
            /\ Cardinality({i \in DOMAIN trace : trace[i] = trace[Len(trace)]}) = 1
            /\ trace[Len(trace)][1] \in {"read_csv", "plot"})
    /\ [][err = NoErr]_vars

C6_Witness ==
    /\ SchemaFailure /\ err.what = "Vy" /\ trace[Len(trace)] = <<"plot", 2>>
    /\ displayed = <<>>

\* C7: the file is never written and the table is never changed after the
\* load: within a call, once loaded, df stays what read_csv returned, on
\* successful and failed runs alike.
C7_TableAndFileReadOnly ==
    [][/\ content' = content
       /\ access' = access
       /\ (df.loaded /\ run' = run) => df' = df
       /\ df'.loaded => (df'.columns = content.header
                         /\ \A c \in Range(content.header) : \A i \in 1..NumRows :
                                df'.data[c][i] = FileCell(i, c))]_vars

C7_Witness ==
    /\ df.loaded /\ status = "done" /\ NumRows = 2 /\ df.data["Az"] = <<9, 0>>

ExpectedPanelCalls(k) ==
    << <<"add_subplot", k>>, <<"plot", k>>, <<"set_title", k>>,
       <<"set_xlabel", k>>, <<"set_ylabel", k>>, <<"set_zlabel", k>> >>
ExpectedTrace ==
    << <<"read_csv", 0>>, <<"figure", 0>> >>
    \o ExpectedPanelCalls(1) \o ExpectedPanelCalls(2) \o ExpectedPanelCalls(3)
    \o << <<"tight_layout", 0>>, <<"show", 0>> >>

\* C8: the calls of a run are made in the order load, figure, Position panel,
\* Velocity panel, Acceleration panel, layout, display, each once; layout runs
\* only when all three panels are complete, display only after layout, and
\* display is the last call of a successful run.
C8_FixedStepOrder ==
    /\ Len(trace) <= Len(ExpectedTrace)
    /\ trace = SubSeq(ExpectedTrace, 1, Len(trace))
    /\ <<"tight_layout", 0>> \in Range(trace) =>
          (Len(Axes) = 3 /\ \A k \in 1..3 : CompletePanel(Axes[k], k))
    /\ <<"show", 0>> \in Range(trace) => figures[fig].tight
    /\ status \in {"showing", "done"} => trace = ExpectedTrace

C8_Witness ==
    /\ status = "showing" /\ trace[Len(trace)] = <<"show", 0>> /\ Len(trace) = 22
    /\ figures[fig].tight

\* C9: every call ends, in exactly one of two ways: it returns after the figure
\* was shown (the viewer being closed eventually) or it fails with an error;
\* no call stays running or blocked forever.
C9_EveryRunEnds ==
    /\ (status \in {"running", "showing"}) ~> (status \in {"done", "failed"})
    /\ [](status = "done" => (err = NoErr /\ pc = 41))
    /\ [](status = "failed" => err # NoErr)

C9_Witness ==
    /\ status = "done" /\ interactive /\ run = 2 /\ displayed = <<1, 2>>

\* C10: lookups are made panel by panel in the order Sx..Az, after the panel's
\* axes are created: when the first missing column belongs to panel k, the
\* figure holds k axes at the failure, panels 1..k-1 complete and panel k
\* empty, and the lookups made are the columns up to the missing one.
C10_PartialFigureAtFailure ==
    /\ lookups = SubSeq(NineCols, 1, Len(lookups))
    /\ \A k \in 1..3 : (<<"plot", k>> \in Range(trace)) => (<<"add_subplot", k>> \in Range(trace))
    /\ SchemaFailure =>
          LET k == PanelOf(FirstMissingCol)
          IN /\ err.what = FirstMissingCol
             /\ lookups = SubSeq(NineCols, 1, Pos(FirstMissingCol, NineCols))
             /\ Len(Axes) = k
             /\ \A j \in 1..(k - 1) : CompletePanel(Axes[j], j)
             /\ EmptyPanel(Axes[k]) /\ Axes[k].slot = k

C10_Witness ==
    /\ SchemaFailure /\ err.what = "Vz" /\ Len(Axes) = 2
    /\ CompletePanel(Axes[1], 1) /\ EmptyPanel(Axes[2])
====
